---- MODULE Spec2Model ----
(***************************************************************************)
(* replicache-rpc: the registries (ReplicacheServer, ReplicacheClient),    *)
(* the dispatch surfaces they produce, and the validation adapter that     *)
(* every dispatch goes through.                                            *)
(*                                                                         *)
(* Asynchrony is modelled as in the JavaScript run-time: an async function *)
(* runs synchronously up to its first await; what follows an await is a    *)
(* continuation on the FIFO microtask queue (mq); a promise that an        *)
(* external party settles (an asynchronous validator, a suspended handler, *)
(* the store) is settled by an action of its own.                          *)
(***************************************************************************)
EXTENDS Naturals, Sequences, FiniteSets, TLC

\* Builder stages that may exist at once (the two constructed registries included).
MaxStages == 4
\* Dispatch calls issued in one behaviour.
MaxCalls == 2
\* Dispatch surfaces built in one behaviour.
MaxSurfaces == 1
\* Components that call useQuery.
MaxConsumers == 1
\* Store subscriptions opened in one behaviour.
MaxSubs == 2
\* Components and store subscriptions of a tree with several components.
PairConsumers == 2
PairSubs == 3

(***************************************************************************)
(* JavaScript values                                                       *)
(***************************************************************************)
Num(n) == [t |-> "number", v |-> n]
Str(n) == [t |-> "string", v |-> n]

\* An input object {id, name}; the id is a number or a (numeric) string.
User(id, name) == [id |-> id, name |-> name]

\* What callers pass: two valid users with one id, one whose id is a numeric
\* string (invalid for {id: number}), and an id nothing is ever stored under.
Inputs ==
    { User(Num(1), "Jean"), User(Num(1), "Marie"), User(Str(1), "Jean") }
QueryInputs ==
    { User(Num(1), ""), User(Num(2), ""), User(Str(1), "") }

Undefined == User([t |-> "undefined", v |-> 0], "")
NullValue == User([t |-> "null", v |-> 0], "")

NoErr == [type |-> "none", message |-> ""]

(***************************************************************************)
(* Schemas: Standard Schema objects supplied by the caller.                *)
(*   "number"       {id: number}, synchronous, output = input              *)
(*   "parse"        {id: numeric string parsed to a number}: its output    *)
(*                  type differs from its input type                       *)
(*   "asyncNumber"  as "number", but validate returns a pending promise    *)
(*   "undefined"    no schema at all (a missing `schema` property)         *)
(***************************************************************************)
Schemas == {"number", "parse", "asyncNumber"}

SchemaIsAsync(schema) == schema = "asyncNumber"

\* schema["~standard"].validate(input): {value} or {issues}.
StandardValidate(schema, input) ==
    IF schema = "parse"
    THEN IF input.id.t = "string"
         THEN [hasIssues |-> FALSE, issues |-> <<>>,
               value |-> [input EXCEPT !.id = Num(input.id.v)]]
         ELSE [hasIssues |-> TRUE, issues |-> <<"id must be a numeric string">>,
               value |-> Undefined]
    ELSE IF input.id.t = "number"
         THEN [hasIssues |-> FALSE, issues |-> <<>>, value |-> input]
         ELSE [hasIssues |-> TRUE, issues |-> <<"id must be a number">>,
               value |-> Undefined]

RECURSIVE JoinIssues(_)
JoinIssues(issues) ==
    IF issues = <<>> THEN ""
    ELSE IF Len(issues) = 1 THEN Head(issues)
    ELSE Head(issues) \o "," \o JoinIssues(Tail(issues))

\* new ValidationError(issues): the message is the serialised issue list.
ValidationError(issues) ==
    [type |-> "ValidationError", message |-> "[" \o JoinIssues(issues) \o "]"]

TypeError == [type |-> "TypeError", message |-> "Cannot read properties of undefined"]

\* A validator's return value used as it is: a promise has neither an
\* `issues` nor a `value` property.
Awaited_PromiseAsResult(isPromise, result) ==
    IF isPromise
    THEN [hasIssues |-> FALSE, issues |-> <<>>, value |-> Undefined]
    ELSE result

\* `if (result instanceof Promise) result = await result`: the result the
\* validator returned, or the one its promise settles to.
Awaited(isPromise, result) == result

\* validate without its `if (result.issues) throw`: a failure result's value
\* is returned like a success.
validate_IgnoringIssues(schema, input) ==
    IF schema = "undefined"
    THEN [ok |-> FALSE, value |-> Undefined, err |-> TypeError, ran |-> FALSE]
    ELSE [ok |-> TRUE, value |-> input, err |-> NoErr, ran |-> TRUE]

\* validate(schema, input): what the returned promise settles to.
\* ran: whether the schema's validator was executed.
validate(schema, input) ==
    IF schema = "undefined"
    THEN [ok |-> FALSE, value |-> Undefined, err |-> TypeError, ran |-> FALSE]
    ELSE LET result == Awaited(SchemaIsAsync(schema),
                               StandardValidate(schema, input))
         IN  IF result.hasIssues
             THEN [ok |-> FALSE, value |-> Undefined,
                   err |-> ValidationError(result.issues), ran |-> TRUE]
             ELSE [ok |-> TRUE, value |-> result.value, err |-> NoErr, ran |-> TRUE]

NoOutcome == [ok |-> FALSE, value |-> Undefined, err |-> NoErr, ran |-> FALSE]

(***************************************************************************)
(* Registries                                                              *)
(***************************************************************************)
Names == {"createUser", "deleteUser"}
QueryNames == {"getUser", "createUser"}

\* Property names every plain object inherits from Object.prototype.
ObjectPrototype == {"toString"}

\* Names a caller may pass to ReplicacheServer.mutate.
DispatchNames == Names \cup ObjectPrototype

\* Handlers of the producer side, (args) => void: "h3" throws; "h2" is an async handler
\* that suspends before it returns.
HandlerSuspends(fn) == fn = "h2"

\* {name, schema, fn}
MutatorDef(name, schema, fn) == [name |-> name, schema |-> schema, fn |-> fn]
NoDef == MutatorDef("", "undefined", "none")

\* The registrations the producer program makes.
ServerDefs ==
    { MutatorDef("createUser", "number", "h1"),
      MutatorDef("createUser", "parse", "h2"),
      MutatorDef("createUser", "asyncNumber", "h1"),
      MutatorDef("deleteUser", "asyncNumber", "h3") }

\* The registrations the consumer program makes: handlers (tx, input) => output.
ClientDefs ==
    { MutatorDef("createUser", "number", "createUser"),
      MutatorDef("createUser", "parse", "updateUserName"),
      MutatorDef("createUser", "asyncNumber", "updateUserName"),
      MutatorDef("deleteUser", "number", "removeUser") }

QueryDefs ==
    { MutatorDef("getUser", "number", "getUser"),
      MutatorDef("createUser", "asyncNumber", "requireUser") }

\* The argument lists mutation(...) accepts for a definition: [name, schema, fn],
\* or [name, fn] with the schema attached to fn as fn.schema.
Fn(id, schema) == [id |-> id, schema |-> schema]
ArgsOf(def) ==
    { <<def.name, def.schema, Fn(def.fn, "undefined")>>,
      <<def.name, Fn(def.fn, def.schema)>> }

\* A two-argument form that never reads the schema attached to the handler.
DefOfArgs_SchemaArgumentOnly(args) ==
    MutatorDef(args[1],
               IF Len(args) = 3 THEN args[2] ELSE "undefined",
               IF Len(args) = 3 THEN args[3].id ELSE args[2].id)

\* The definition mutation(...) stores for an argument list.
DefOfArgs(args) ==
    MutatorDef(args[1],
               IF Len(args) = 3 THEN args[2] ELSE args[2].schema,
               IF Len(args) = 3 THEN args[3].id ELSE args[2].id)

\* The empty object {}.
EmptyObject == [n \in {} |-> NoDef]

\* {[key]: def, ...obj}: an entry the object already has wins.
Spread_FirstWins(obj, key, def) ==
    [n \in DOMAIN obj \cup {key} |-> IF n \in DOMAIN obj THEN obj[n] ELSE def]

\* {...obj, [key]: def}
Spread(obj, key, def) ==
    [n \in DOMAIN obj \cup {key} |-> IF n = key THEN def ELSE obj[n]]

\* obj[key]: an own property, else one inherited from Object.prototype
\* (a function: truthy, with no `schema` and no `fn`), else undefined.
Get(obj, key) ==
    IF key \in DOMAIN obj
    THEN [truthy |-> TRUE, def |-> obj[key]]
    ELSE IF key \in ObjectPrototype
         THEN [truthy |-> TRUE, def |-> NoDef]
         ELSE [truthy |-> FALSE, def |-> NoDef]

MutationNotFoundError(name) ==
    [type |-> "MutationNotFoundError", message |-> "Unknown mutation: " \o name]

(***************************************************************************)
(* The store (Replicache): keys /user/<id>                                 *)
(***************************************************************************)
Keys == {1, 2}

\* `/user/${input.id}`
KeyOf(input) == input.id.v

EmptyStore == [k \in Keys |-> NullValue]

\* The user handlers, as functions of the transaction's view and the input:
\* what they write and what they return.
\*   createUser, updateUserName:  tx.set(`/user/${input.id}`, input); return input
\*   deleteUser:                  tx.del(`/user/${id}`)
\*   removeUser:                  as deleteUser, but throws when there is none
\*   getUser:                     (await tx.get(`/user/${id}`)) ?? null
HandlerWrites(fn, kv, input) ==
    IF fn \in {"createUser", "updateUserName"}
    THEN [kv EXCEPT ![KeyOf(input)] = input]
    ELSE IF fn \in {"deleteUser", "removeUser"}
         THEN [kv EXCEPT ![KeyOf(input)] = NullValue]
         ELSE kv

\*   requireUser:                 as getUser, but throws when there is none
HandlerReturn(fn, kv, input) ==
    IF fn \in {"createUser", "updateUserName"} THEN input
    ELSE IF fn \in {"getUser", "requireUser"} THEN kv[KeyOf(input)]
    ELSE Undefined

HandlerThrows(fn, kv, input) ==
    \/ fn = "h3"
    \/ fn \in {"requireUser", "removeUser"} /\ kv[KeyOf(input)] = NullValue

\* The error handler fn throws.
HandlerError(fn) == [type |-> "Error", message |-> fn \o ": no such user"]

VARIABLES
    regs,       \* the registry values constructed so far (builder stages)
    surfaces,   \* the dispatch surfaces build() has produced, each with its store
    calls,      \* every dispatch call issued so far
    mq,         \* the microtask queue: calls whose continuation is ready
    invoked,    \* handler invocations, in order: [call, fn, arg]
    consumers,  \* the components that call useQuery: their hook state
    subs,       \* the store subscriptions opened so far
    console     \* the errors passed to console.error

vars == <<regs, surfaces, calls, mq, invoked, consumers, subs, console>>

\* A registry value.  chain is history, not program state: the registrations
\* made along the builder chain that produced the value, in order.
Registry(kind, mutators, queries, chain) ==
    [kind |-> kind, mutators |-> mutators, queries |-> queries, chain |-> chain]

\* One registration of a chain: the definition stored (def) and, as history,
\* the argument list it was made with (args).
Registration(op, def, args) == [op |-> op, def |-> def, args |-> args]

\* new ReplicacheServer(), new ReplicacheClient(options)
Init ==
    /\ regs = { Registry("server", EmptyObject, EmptyObject, <<>>),
                Registry("client", EmptyObject, EmptyObject, <<>>) }
    /\ surfaces = <<>>
    /\ calls = <<>>
    /\ mq = <<>>
    /\ invoked = <<>>
    /\ consumers = <<>>
    /\ subs = <<>>
    /\ console = {}

Settled(c) == c.pc \in {"resolved", "rejected"}

\* A rejection that replaces what was thrown by an error of its own.
Reject_Wrapped(c, err) ==
    [c EXCEPT !.pc = "rejected",
              !.err = [type |-> "Error", message |-> "dispatch failed"]]

\* An async function throws err (or awaits a promise that rejects with err):
\* the promise call record c stands for rejects with err itself.
Reject(c, err) == [c EXCEPT !.pc = "rejected", !.err = err]

\* A dispatch call.  Program state: the looked-up definition (def), where the
\* call stands (pc, stage), the settled validation it awaits (pending), the
\* value handed to the store (txarg), a read transaction's view (snap), and
\* the outcome (err, result).  History: the arguments as passed (name, args),
\* the chain of the registry dispatched on, the calls already settled when
\* this one was issued (after), the handler invocations made before its
\* transaction opened (seen), validator runs (nvalidate), transactions
\* opened (ntx).
Call(kind, target, name, args, def, chain) ==
    [kind |-> kind, target |-> target, name |-> name, args |-> args, def |-> def,
     pc |-> "new", stage |-> "pre", pending |-> NoOutcome, txarg |-> Undefined,
     err |-> NoErr, result |-> Undefined, snap |-> EmptyStore,
     chain |-> chain, after |-> { i \in 1..Len(calls) : Settled(calls[i]) },
     seen |-> 0, nvalidate |-> 0, ntx |-> 0]

\* `await validate(schema, input)` reached by call record c: the validator
\* runs now; the continuation waits for an asynchronous validator's promise
\* or goes straight to the microtask queue.
AwaitValidate(c, schema, input) ==
    LET out == validate(schema, input)
    IN  [c EXCEPT !.pending = out,
                  !.nvalidate = @ + (IF out.ran THEN 1 ELSE 0),
                  !.pc = IF out.ran /\ SchemaIsAsync(schema)
                         THEN "validating" ELSE "queued"]

\* An asynchronous validator's promise settles: validate's continuation is queued.
ValidatorSettles(c) ==
    /\ calls[c].pc = "validating"
    /\ calls' = [calls EXCEPT ![c].pc = "queued"]
    /\ mq' = Append(mq, c)
    /\ UNCHANGED <<regs, surfaces, invoked, consumers, subs, console>>

(***************************************************************************)
(* ReplicacheServer                                                        *)
(***************************************************************************)
\* ReplicacheServer.mutation(...args) on registry r: a new registry.
ReplicacheServer_mutation(r, args) ==
    /\ Cardinality(regs) < MaxStages
    /\ r.kind = "server"
    /\ regs' = regs \cup
                 { Registry("server",
                            Spread(r.mutators, args[1], DefOfArgs(args)),
                            r.queries,
                            Append(r.chain, Registration("mutation", DefOfArgs(args), args))) }
    /\ UNCHANGED <<surfaces, calls, mq, invoked, consumers, subs, console>>

\* ReplicacheServer.mutate(name, args) on registry r, up to its first await.
ReplicacheServer_mutate(r, name, args) ==
    /\ Len(calls) < MaxCalls
    /\ r.kind = "server"
    /\ LET id == Len(calls) + 1
           mutation == Get(r.mutators, name)
           c == Call("server", 0, name, args, mutation.def, r.chain)
       IN  IF ~mutation.truthy
           THEN /\ calls' = Append(calls, Reject(c, MutationNotFoundError(name)))
                /\ UNCHANGED mq
           ELSE LET c2 == AwaitValidate(c, mutation.def.schema, args)
                IN  /\ calls' = Append(calls, c2)
                    /\ mq' = IF c2.pc = "queued" THEN Append(mq, id) ELSE mq
    /\ UNCHANGED <<regs, surfaces, invoked, consumers, subs, console>>

\* mutate whose validated input is kept where every call in flight writes
\* it: the handler gets what the latest call's validation produced.
ReplicacheServer_mutate_resume_SharedInput(c) ==
    /\ mq # <<>> /\ Head(mq) = c
    /\ calls[c].kind = "server" /\ calls[c].pc = "queued"
    /\ mq' = Tail(mq)
    /\ LET fn == calls[c].def.fn
           input == calls[Len(calls)].pending.value
       IN  IF ~calls[c].pending.ok
           THEN /\ calls' = [calls EXCEPT ![c] = Reject(@, calls[c].pending.err)]
                /\ UNCHANGED invoked
           ELSE /\ invoked' = Append(invoked,
                     [call |-> c, fn |-> fn, arg |-> input, threw |-> FALSE])
                /\ calls' = [calls EXCEPT ![c].pc =
                                IF HandlerSuspends(fn) THEN "handler" ELSE "resolved"]
    /\ UNCHANGED <<regs, surfaces, consumers, subs, console>>

\* mutate after `await validate(...)`: rethrow, or call mutation.fn(input).
ReplicacheServer_mutate_resume(c) ==
    /\ mq # <<>> /\ Head(mq) = c
    /\ calls[c].kind = "server" /\ calls[c].pc = "queued"
    /\ mq' = Tail(mq)
    /\ LET fn == calls[c].def.fn
           threw == HandlerThrows(fn, EmptyStore, calls[c].pending.value)
       IN  IF ~calls[c].pending.ok
           THEN /\ calls' = [calls EXCEPT ![c] = Reject(@, calls[c].pending.err)]
                /\ UNCHANGED invoked
           ELSE /\ invoked' = Append(invoked,
                     [call |-> c, fn |-> fn, arg |-> calls[c].pending.value,
                      threw |-> threw])
                /\ calls' = [calls EXCEPT ![c] =
                     IF threw THEN Reject(@, HandlerError(fn))
                     ELSE [@ EXCEPT !.pc = IF HandlerSuspends(fn)
                                           THEN "handler" ELSE "resolved"]]
    /\ UNCHANGED <<regs, surfaces, consumers, subs, console>>

\* A suspended (async) handler returns: Promise.resolve(mutation.fn(input)) resolves.
HandlerReturns(c) ==
    /\ calls[c].pc = "handler"
    /\ calls' = [calls EXCEPT ![c].pc = "resolved"]
    /\ UNCHANGED <<regs, surfaces, mq, invoked, consumers, subs, console>>

(***************************************************************************)
(* ReplicacheClient                                                        *)
(***************************************************************************)
\* mutation() that adds the definition to the receiver's own map.
ReplicacheClient_mutation_InPlace(r, args) ==
    /\ Cardinality(regs) < MaxStages
    /\ r.kind = "client"
    /\ regs' = (regs \ {r}) \cup
                 { Registry("client",
                            Spread(r.mutators, args[1], DefOfArgs(args)),
                            r.queries,
                            Append(r.chain, Registration("mutation", DefOfArgs(args), args))) }
    /\ UNCHANGED <<surfaces, calls, mq, invoked, consumers, subs, console>>

\* ReplicacheClient.mutation(...args) on registry r: a new registry.
ReplicacheClient_mutation(r, args) ==
    /\ Cardinality(regs) < MaxStages
    /\ r.kind = "client"
    /\ regs' = regs \cup
                 { Registry("client",
                            Spread(r.mutators, args[1], DefOfArgs(args)),
                            r.queries,
                            Append(r.chain, Registration("mutation", DefOfArgs(args), args))) }
    /\ UNCHANGED <<surfaces, calls, mq, invoked, consumers, subs, console>>

\* query() that keeps queries and mutations in one namespace: the query
\* takes the place of a mutation of the same name.
ReplicacheClient_query_OneNamespace(r, name, schema, queryFn) ==
    /\ Cardinality(regs) < MaxStages
    /\ r.kind = "client"
    /\ regs' = regs \cup
                 { Registry("client",
                            [n \in DOMAIN r.mutators \ {name} |-> r.mutators[n]],
                            Spread(r.queries, name, MutatorDef(name, schema, queryFn)),
                            Append(r.chain,
                                   Registration("query", MutatorDef(name, schema, queryFn),
                                                <<name, schema, Fn(queryFn, "undefined")>>))) }
    /\ UNCHANGED <<surfaces, calls, mq, invoked, consumers, subs, console>>

\* ReplicacheClient.query(name, schema, queryFn) on registry r: a new registry.
ReplicacheClient_query(r, name, schema, queryFn) ==
    /\ Cardinality(regs) < MaxStages
    /\ r.kind = "client"
    /\ regs' = regs \cup
                 { Registry("client",
                            r.mutators,
                            Spread(r.queries, name, MutatorDef(name, schema, queryFn)),
                            Append(r.chain,
                                   Registration("query", MutatorDef(name, schema, queryFn),
                                                <<name, schema, Fn(queryFn, "undefined")>>))) }
    /\ UNCHANGED <<surfaces, calls, mq, invoked, consumers, subs, console>>

\* ReplicacheClient.build() on registry r: builtMutators and the query and
\* mutate objects hold one entry per own entry of the registry's maps, and
\* new Replicache({...options, mutators: builtMutators}) is an empty store
\* with no transaction open (wtx) and none waiting (wq).
build(r) ==
    /\ Len(surfaces) < MaxSurfaces
    /\ r.kind = "client"
    /\ surfaces' = Append(surfaces,
                     [mutators |-> r.mutators, queries |-> r.queries,
                      kv |-> EmptyStore, wq |-> <<>>, wtx |-> 0,
                      chain |-> r.chain])
    /\ UNCHANGED <<regs, calls, mq, invoked, consumers, subs, console>>

\* mutate.<name>(input) on surface s, up to its first await:
\* rep.mutate[name] exists for every built name, then validate(schema, input).
mutate(s, name, input) ==
    /\ Len(calls) < MaxCalls
    /\ name \in DOMAIN surfaces[s].mutators
    /\ LET id == Len(calls) + 1
           mutatorDef == surfaces[s].mutators[name]
           c == AwaitValidate(Call("mutate", s, name, input, mutatorDef,
                                   surfaces[s].chain),
                              mutatorDef.schema, input)
       IN  /\ calls' = Append(calls, c)
           /\ mq' = IF c.pc = "queued" THEN Append(mq, id) ELSE mq
    /\ UNCHANGED <<regs, surfaces, invoked, consumers, subs, console>>

\* mutate.<name> that hands its input to rep.mutate[name] whatever the
\* validator said.
mutate_resume_Unchecked(c) ==
    /\ mq # <<>> /\ Head(mq) = c
    /\ calls[c].kind = "mutate" /\ calls[c].pc = "queued" /\ calls[c].stage = "pre"
    /\ mq' = Tail(mq)
    /\ calls' = [calls EXCEPT ![c].pc = "txwait", ![c].txarg = calls[c].args]
    /\ surfaces' = [surfaces EXCEPT ![calls[c].target].wq = Append(@, c)]
    /\ UNCHANGED <<regs, invoked, consumers, subs, console>>

\* mutate.<name> after `await validate(...)`: rethrow, or call
\* rep.mutate[name](validated), which waits for the store's write lock.
mutate_resume(c) ==
    /\ mq # <<>> /\ Head(mq) = c
    /\ calls[c].kind = "mutate" /\ calls[c].pc = "queued" /\ calls[c].stage = "pre"
    /\ mq' = Tail(mq)
    /\ IF ~calls[c].pending.ok
       THEN /\ calls' = [calls EXCEPT ![c] = Reject(@, calls[c].pending.err)]
            /\ UNCHANGED surfaces
       ELSE /\ calls' = [calls EXCEPT ![c].pc = "txwait",
                                      ![c].txarg = calls[c].pending.value]
            /\ surfaces' = [surfaces EXCEPT ![calls[c].target].wq = Append(@, c)]
    /\ UNCHANGED <<regs, invoked, consumers, subs, console>>

\* rep.mutate.<name>(input) on the store of surface s, as new Replicache
\* exposes the mutators it was given: the call waits for the write lock
\* with the input as passed.
rep_mutate(s, name, input) ==
    /\ Len(calls) < MaxCalls
    /\ name \in DOMAIN surfaces[s].mutators
    /\ calls' = Append(calls,
          [Call("direct", s, name, input, surfaces[s].mutators[name],
                surfaces[s].chain)
             EXCEPT !.pc = "txwait", !.txarg = input])
    /\ surfaces' = [surfaces EXCEPT ![s].wq = Append(@, Len(calls) + 1)]
    /\ UNCHANGED <<regs, mq, invoked, consumers, subs, console>>

\* The calls that run a built mutator in a write transaction of the store.
StoreMutations == {"mutate", "direct"}

\* A built mutator that hands its input to the handler without validating it.
builtMutator_Unvalidated(c) ==
    /\ calls[c].kind \in StoreMutations /\ calls[c].pc = "txwait"
    /\ LET s == calls[c].target
       IN  /\ surfaces[s].wtx = 0
           /\ surfaces[s].wq # <<>> /\ Head(surfaces[s].wq) = c
           /\ surfaces' = [surfaces EXCEPT ![s].wq = Tail(@), ![s].wtx = c]
           /\ calls' = [calls EXCEPT ![c] =
                  [@ EXCEPT !.ntx = @ + 1, !.stage = "tx", !.pc = "queued",
                            !.pending = [ok |-> TRUE, value |-> calls[c].txarg,
                                         err |-> NoErr, ran |-> FALSE]]]
           /\ mq' = Append(mq, c)
    /\ UNCHANGED <<regs, invoked, consumers, subs, console>>

\* The store opens the write transaction of the longest-waiting mutation and
\* runs builtMutators[name](tx, input) up to its await: validate(schema, input).
builtMutator(c) ==
    /\ calls[c].kind \in StoreMutations /\ calls[c].pc = "txwait"
    /\ LET s == calls[c].target
       IN  /\ surfaces[s].wtx = 0
           /\ surfaces[s].wq # <<>> /\ Head(surfaces[s].wq) = c
           /\ surfaces' = [surfaces EXCEPT ![s].wq = Tail(@), ![s].wtx = c]
           /\ LET c2 == AwaitValidate([calls[c] EXCEPT !.ntx = @ + 1, !.stage = "tx"],
                                      calls[c].def.schema, calls[c].txarg)
              IN  /\ calls' = [calls EXCEPT ![c] = c2]
                  /\ mq' = IF c2.pc = "queued" THEN Append(mq, c) ELSE mq
    /\ UNCHANGED <<regs, invoked, consumers, subs, console>>

\* The store, on a commit that changes kv from old to new: every open
\* subscription whose last evaluation read a changed key is due to run again.
Fire(ss, old, new) ==
    [i \in DOMAIN ss |->
        IF ss[i].active /\ \E k \in ss[i].reads : old[k] # new[k]
        THEN [ss[i] EXCEPT !.dirty = TRUE]
        ELSE ss[i]]

\* builtMutators[name] after `await validate(...)`: a ValidationError aborts
\* the transaction; else mutatorDef.fn(tx, validated) runs: if it throws, the
\* transaction is aborted and rep.mutate rejects with what it threw, else the
\* transaction commits what it wrote and rep.mutate resolves with what it
\* returned.
builtMutator_resume(c) ==
    /\ mq # <<>> /\ Head(mq) = c
    /\ calls[c].kind \in StoreMutations
    /\ calls[c].pc = "queued" /\ calls[c].stage = "tx"
    /\ mq' = Tail(mq)
    /\ LET s == calls[c].target
           input == calls[c].pending.value
       IN  IF ~calls[c].pending.ok
           THEN /\ calls' = [calls EXCEPT ![c] = Reject(@, calls[c].pending.err)]
                /\ surfaces' = [surfaces EXCEPT ![s].wtx = 0]
                /\ UNCHANGED <<invoked, subs>>
           ELSE IF HandlerThrows(calls[c].def.fn, surfaces[s].kv, input)
           THEN /\ invoked' = Append(invoked,
                     [call |-> c, fn |-> calls[c].def.fn, arg |-> input,
                      threw |-> TRUE])
                /\ calls' = [calls EXCEPT ![c] =
                                Reject(@, HandlerError(calls[c].def.fn))]
                /\ surfaces' = [surfaces EXCEPT ![s].wtx = 0]
                /\ UNCHANGED subs
           ELSE /\ invoked' = Append(invoked,
                     [call |-> c, fn |-> calls[c].def.fn, arg |-> input,
                      threw |-> FALSE])
                /\ surfaces' = [surfaces EXCEPT
                     ![s].wtx = 0,
                     ![s].kv = HandlerWrites(calls[c].def.fn, @, input)]
                /\ calls' = [calls EXCEPT
                     ![c].pc = "resolved",
                     ![c].result = HandlerReturn(calls[c].def.fn, surfaces[s].kv, input)]
                /\ subs' = Fire(subs, surfaces[s].kv,
                                HandlerWrites(calls[c].def.fn, surfaces[s].kv, input))
    /\ UNCHANGED <<regs, consumers, console>>

\* query.<name>.once(input) on surface s: rep.query(callback) is called; the
\* store has not opened the read transaction yet.
once(s, name, input) ==
    /\ Len(calls) < MaxCalls
    /\ name \in DOMAIN surfaces[s].queries
    /\ calls' = Append(calls,
          [Call("once", s, name, input, surfaces[s].queries[name],
                surfaces[s].chain)
             EXCEPT !.pc = "txwait"])
    /\ UNCHANGED <<regs, surfaces, mq, invoked, consumers, subs, console>>

\* once whose callback reads the store as it was when the surface was built.
once_callback_StaleRead(c) ==
    /\ calls[c].kind = "once" /\ calls[c].pc = "txwait"
    /\ LET c2 == AwaitValidate(
                   [calls[c] EXCEPT !.ntx = @ + 1, !.stage = "tx",
                                    !.seen = Len(invoked),
                                    !.snap = EmptyStore],
                   calls[c].def.schema, calls[c].args)
       IN  /\ calls' = [calls EXCEPT ![c] = c2]
           /\ mq' = IF c2.pc = "queued" THEN Append(mq, c) ELSE mq
    /\ UNCHANGED <<regs, surfaces, invoked, consumers, subs, console>>

\* The store opens a read transaction on its current state and runs the
\* callback of once up to its await: validate(queryDef.schema, input).
once_callback(c) ==
    /\ calls[c].kind = "once" /\ calls[c].pc = "txwait"
    /\ LET c2 == AwaitValidate(
                   [calls[c] EXCEPT !.ntx = @ + 1, !.stage = "tx",
                                    !.seen = Len(invoked),
                                    !.snap = surfaces[calls[c].target].kv],
                   calls[c].def.schema, calls[c].args)
       IN  /\ calls' = [calls EXCEPT ![c] = c2]
           /\ mq' = IF c2.pc = "queued" THEN Append(mq, c) ELSE mq
    /\ UNCHANGED <<regs, surfaces, invoked, consumers, subs, console>>

\* A read transaction that stays open after the callback has settled.
ReadTxEnds_StayingOpen(c) == c

\* rep.query(callback): the store ends the read transaction of call record c
\* when the promise of the callback settles.
ReadTxEnds(c) == [c EXCEPT !.stage = "closed"]

\* The callback of once after `await validate(...)`: rethrow, or
\* queryDef.fn(tx, validated); the read transaction ends either way.
once_resume(c) ==
    /\ mq # <<>> /\ Head(mq) = c
    /\ calls[c].kind = "once" /\ calls[c].pc = "queued"
    /\ mq' = Tail(mq)
    /\ LET fn == calls[c].def.fn
           threw == HandlerThrows(fn, calls[c].snap, calls[c].pending.value)
           closed == ReadTxEnds(calls[c])
       IN  IF ~calls[c].pending.ok
           THEN /\ calls' = [calls EXCEPT ![c] = Reject(closed, calls[c].pending.err)]
                /\ UNCHANGED invoked
           ELSE /\ invoked' = Append(invoked,
                     [call |-> c, fn |-> fn, arg |-> calls[c].pending.value,
                      threw |-> threw])
                /\ calls' = [calls EXCEPT ![c] =
                     IF threw THEN Reject(closed, HandlerError(fn))
                     ELSE [closed EXCEPT
                             !.pc = "resolved",
                             !.result = HandlerReturn(fn, calls[c].snap,
                                                      calls[c].pending.value)]]
    /\ UNCHANGED <<regs, surfaces, consumers, subs, console>>

\* query.<name>(tx, input), the transaction-scoped form, called by code that
\* holds a read transaction on surface s's store, up to its await:
\* validate(queryDef.schema, input).  It opens no transaction of its own.
query_scoped(s, name, input) ==
    /\ Len(calls) < MaxCalls
    /\ name \in DOMAIN surfaces[s].queries
    /\ LET id == Len(calls) + 1
           queryDef == surfaces[s].queries[name]
           c == AwaitValidate(
                  [Call("scoped", s, name, input, queryDef, surfaces[s].chain)
                     EXCEPT !.stage = "tx", !.seen = Len(invoked),
                            !.snap = surfaces[s].kv],
                  queryDef.schema, input)
       IN  /\ calls' = Append(calls, c)
           /\ mq' = IF c.pc = "queued" THEN Append(mq, id) ELSE mq
    /\ UNCHANGED <<regs, surfaces, invoked, consumers, subs, console>>

\* The transaction-scoped form after `await validate(...)`: rethrow, or
\* queryDef.fn(tx, validated).
query_scoped_resume(c) ==
    /\ mq # <<>> /\ Head(mq) = c
    /\ calls[c].kind = "scoped" /\ calls[c].pc = "queued"
    /\ mq' = Tail(mq)
    /\ LET fn == calls[c].def.fn
           threw == HandlerThrows(fn, calls[c].snap, calls[c].pending.value)
       IN  IF ~calls[c].pending.ok
           THEN /\ calls' = [calls EXCEPT ![c] = Reject(@, calls[c].pending.err)]
                /\ UNCHANGED invoked
           ELSE /\ invoked' = Append(invoked,
                     [call |-> c, fn |-> fn, arg |-> calls[c].pending.value,
                      threw |-> threw])
                /\ calls' = [calls EXCEPT ![c] =
                     IF threw THEN Reject(@, HandlerError(fn))
                     ELSE [@ EXCEPT
                             !.pc = "resolved",
                             !.result = HandlerReturn(fn, calls[c].snap,
                                                      calls[c].pending.value)]]
    /\ UNCHANGED <<regs, surfaces, consumers, subs, console>>

ClientNext ==
    \/ \E r \in regs, d \in ClientDefs : \E a \in ArgsOf(d) :
          ReplicacheClient_mutation(r, a)
    \/ \E r \in regs, d \in QueryDefs :
          ReplicacheClient_query(r, d.name, d.schema, d.fn)
    \/ \E r \in regs : build(r)
    \/ \E s \in 1..Len(surfaces), n \in Names, i \in Inputs : mutate(s, n, i)
    \/ \E c \in 1..Len(calls) : mutate_resume(c)
    \/ \E c \in 1..Len(calls) : builtMutator(c)
    \/ \E c \in 1..Len(calls) : builtMutator_resume(c)
    \/ \E s \in 1..Len(surfaces), n \in QueryNames, i \in QueryInputs : once(s, n, i)
    \/ \E c \in 1..Len(calls) : once_callback(c)
    \/ \E c \in 1..Len(calls) : once_resume(c)
    \/ \E s \in 1..Len(surfaces), n \in QueryNames, i \in QueryInputs :
          query_scoped(s, n, i)
    \/ \E c \in 1..Len(calls) : query_scoped_resume(c)
    \/ \E s \in 1..Len(surfaces), n \in Names, i \in Inputs : rep_mutate(s, n, i)

ServerNext ==
    \/ \E r \in regs, d \in ServerDefs : \E a \in ArgsOf(d) :
          ReplicacheServer_mutation(r, a)
    \/ \E r \in regs, n \in DispatchNames, i \in Inputs :
          ReplicacheServer_mutate(r, n, i)
    \/ \E c \in 1..Len(calls) : ReplicacheServer_mutate_resume(c)
    \/ \E c \in 1..Len(calls) : HandlerReturns(c)

\* The registries, the surfaces built from them and the calls dispatched
\* through them; no component uses the React bindings.
Next ==
    \/ ServerNext
    \/ ClientNext
    \/ \E c \in 1..Len(calls) : ValidatorSettles(c)

Spec == Init /\ [][Next]_vars

(***************************************************************************)
(* React bindings: createReplicacheReact(client) and its useQuery hook     *)
(***************************************************************************)
\* The `depedencies` argument of useQuery: undefined, an array, an object or
\* a primitive; vals are the array's elements, the object's values, or the
\* primitive itself.
Deps(shape, vals) == [shape |-> shape, vals |-> vals]

\* What the component passes: {id: 1}, {id: 2} and {id: "1"}, which the
\* queries' schema {id: number} rejects.
DepsInputs ==
    { Deps("object", <<Num(1)>>), Deps("object", <<Num(2)>>),
      Deps("object", <<Str(1)>>) }

Falsy(v) == v.t \in {"undefined", "null"} \/ (v.t = "number" /\ v.v = 0)

\* The dependency list handed to useCallback.
DepsList(depedencies) ==
    IF depedencies.shape = "undefined" THEN <<>>
    ELSE IF depedencies.shape = "primitive" /\ Falsy(depedencies.vals[1]) THEN <<>>
    ELSE depedencies.vals

\* React's comparison of a hook's dependency lists: Object.is, element by
\* element, over the positions both lists have.
areHookInputsEqual(nextDeps, prevDeps) ==
    \A i \in 1..Len(nextDeps) :
        i <= Len(prevDeps) => nextDeps[i] = prevDeps[i]

\* The input object query(tx, depedencies) receives.
InputOf(depedencies) ==
    IF depedencies.shape = "object" /\ depedencies.vals # <<>>
    THEN User(depedencies.vals[1], "")
    ELSE Undefined

HandlerReads(fn, input) ==
    IF fn \in {"getUser", "requireUser"} THEN {KeyOf(input)} ELSE {}

\* query.<name>(tx, input), the transaction-scoped form, on the view kv:
\* queryDef.fn(tx, await validate(queryDef.schema, input)).
queryFn(queryDef, kv, input) ==
    LET out == validate(queryDef.schema, input)
    IN  IF ~out.ok
        THEN [ok |-> FALSE, value |-> Undefined, err |-> out.err, reads |-> {}]
        ELSE IF HandlerThrows(queryDef.fn, kv, out.value)
             THEN [ok |-> FALSE, value |-> Undefined, err |-> HandlerError(queryDef.fn),
                   reads |-> HandlerReads(queryDef.fn, out.value)]
             ELSE [ok |-> TRUE, value |-> HandlerReturn(queryDef.fn, kv, out.value),
                   err |-> NoErr, reads |-> HandlerReads(queryDef.fn, out.value)]

\* The client the bindings are created for, as a program builds it:
\* new ReplicacheClient(options).mutation(...).mutation(...).query(...).query(...).build()
ReactMutators ==
    Spread(Spread(EmptyObject, "createUser",
                  MutatorDef("createUser", "number", "createUser")),
           "deleteUser", MutatorDef("deleteUser", "number", "deleteUser"))
ReactQueries ==
    Spread(Spread(EmptyObject, "getUser",
                  MutatorDef("getUser", "number", "getUser")),
           "requireUser", MutatorDef("requireUser", "number", "requireUser"))
ReactQueryNames == DOMAIN ReactQueries
ReactChain ==
    << Registration("mutation", ReactMutators["createUser"],
                    <<"createUser", ReactMutators["createUser"].schema, Fn(ReactMutators["createUser"].fn, "undefined")>>),
       Registration("mutation", ReactMutators["deleteUser"],
                    <<"deleteUser", ReactMutators["deleteUser"].schema, Fn(ReactMutators["deleteUser"].fn, "undefined")>>),
       Registration("query", ReactQueries["getUser"],
                    <<"getUser", ReactQueries["getUser"].schema, Fn(ReactQueries["getUser"].fn, "undefined")>>),
       Registration("query", ReactQueries["requireUser"],
                    <<"requireUser", ReactQueries["requireUser"].schema, Fn(ReactQueries["requireUser"].fn, "undefined")>>) >>

\* The state after createReplicacheReact(client): nothing rendered yet.
InitReact ==
    /\ regs = { Registry("client", ReactMutators, ReactQueries, ReactChain) }
    /\ surfaces = << [mutators |-> ReactMutators, queries |-> ReactQueries,
                      kv |-> EmptyStore, wq |-> <<>>, wtx |-> 0,
                      chain |-> ReactChain] >>
    /\ calls = <<>>
    /\ mq = <<>>
    /\ invoked = <<>>
    /\ consumers = <<>>
    /\ subs = <<>>
    /\ console = {}

\* The surface createReplicacheReact(client) was given.
client == 1

\* createContext(client): the value use(ReplicacheContext) gives a component
\* that has no ReplicacheContext.Provider above it.
ReplicacheContext == [defaultValue |-> [t |-> "object", v |-> client]]

\* <ReplicacheContext.Provider value={client}>
ReplicacheProvider == [value |-> [t |-> "object", v |-> client]]

\* use(ReplicacheContext) in a component inside or outside the provider's
\* subtree.
use(inside) ==
    IF inside THEN ReplicacheProvider.value ELSE ReplicacheContext.defaultValue

\* useReplicache(): throws when the context gives it a falsy value, else
\* returns the value.
useReplicache(inside) ==
    LET rep == use(inside)
    IN  IF Falsy(rep)
        THEN [threw |-> TRUE, rep |-> 0]
        ELSE [threw |-> FALSE, rep |-> rep.v]

\* A store subscription opened by rep.rep.subscribe(body, {onData, onError})
\* for consumer c.  Program state: the closure's query and depedencies,
\* whether it is still subscribed (active), whether an evaluation is due
\* (dirty), an evaluation's outcome not yet handed to the callbacks
\* (inflight, value, err), the keys the last evaluation read, the last value
\* given to onData.  History: the values given to onData (got), whether
\* onError was called (errored), whether the consumer had data before this
\* subscription was opened (afterData).
Subscription(c, query, depedencies) ==
    [consumer |-> c, query |-> query, depedencies |-> depedencies,
     active |-> TRUE, dirty |-> TRUE, inflight |-> "none",
     value |-> Undefined, err |-> NoErr, reads |-> {},
     lastValue |-> Undefined, got |-> <<>>, errored |-> FALSE,
     afterData |-> \E i \in 1..Len(subs) :
                      subs[i].consumer = c /\ subs[i].got # <<>>]

\* The hook state of a component after its first render of
\* useQuery(query, depedencies): queryData = useRef(null), loading =
\* useState(true), the memoised subscribe closure (query, depedencies, list),
\* the subscription its effect opened (sub), what the render returned (view).
\* A component whose loading state starts out false.
Consumer_StartingReady(inside, props, query, depedencies, sub) ==
    [status |-> "mounted", inside |-> inside, props |-> props,
     query |-> query, depedencies |-> depedencies, list |-> DepsList(depedencies),
     queryData |-> NullValue, loading |-> FALSE, sub |-> sub,
     view |-> [loading |-> FALSE, data |-> NullValue], needsRender |-> FALSE]

Consumer(inside, props, query, depedencies, sub) ==
    [status |-> "mounted", inside |-> inside, props |-> props,
     query |-> query, depedencies |-> depedencies, list |-> DepsList(depedencies),
     queryData |-> NullValue, loading |-> TRUE, sub |-> sub,
     view |-> [loading |-> TRUE, data |-> NullValue], needsRender |-> FALSE]

Props(query, depedencies) == [query |-> query, depedencies |-> depedencies]

\* The first render of a component that calls useQuery(query, depedencies),
\* and the effect of useSyncExternalStore: subscribe(callback).
useQuery_mount(inside, query, depedencies) ==
    /\ LET c == Len(consumers) + 1
           rep == useReplicache(inside)
           queryDef == surfaces[client].queries[query]
       IN  IF rep.threw
           THEN /\ consumers' = Append(consumers,
                       [Consumer(inside, Props(query, depedencies), queryDef,
                                 depedencies, 0)
                          EXCEPT !.status = "threw"])
                /\ UNCHANGED subs
           ELSE /\ consumers' = Append(consumers,
                       Consumer(inside, Props(query, depedencies), queryDef,
                                depedencies, Len(subs) + 1))
                /\ subs' = Append(subs, Subscription(c, queryDef, depedencies))
    /\ UNCHANGED <<regs, surfaces, calls, mq, invoked, console>>

\* An unsubscribe that flips the subscription's registration.
Unsubscribe_Toggling(ss, s) == [ss EXCEPT ![s].active = ~@]

\* The function rep.rep.subscribe returned, which subscribe hands on to
\* useSyncExternalStore as the teardown: the store removes subscription s
\* from its set of subscriptions.
Unsubscribe(ss, s) == [ss EXCEPT ![s].active = FALSE]

\* useCallback that also discards the snapshot when it makes a new subscribe.
useCallback_ClearingSnapshot(h, queryDef, depedencies) ==
    IF areHookInputsEqual(DepsList(depedencies), h.list)
    THEN h
    ELSE [h EXCEPT !.query = queryDef, !.depedencies = depedencies,
                   !.list = DepsList(depedencies), !.queryData = NullValue]

\* useCallback that also puts the component back into its loading state
\* when it makes a new subscribe.
useCallback_ResetLoading(h, queryDef, depedencies) ==
    IF areHookInputsEqual(DepsList(depedencies), h.list)
    THEN h
    ELSE [h EXCEPT !.query = queryDef, !.depedencies = depedencies,
                   !.list = DepsList(depedencies), !.loading = TRUE]

\* useCallback(subscribe, list) in a later render of a component with hook
\* state h: the memoised closure and list are kept while the lists compare
\* equal, else replaced by this render's.
useCallback(h, queryDef, depedencies) ==
    IF areHookInputsEqual(DepsList(depedencies), h.list)
    THEN h
    ELSE [h EXCEPT !.query = queryDef, !.depedencies = depedencies,
                   !.list = DepsList(depedencies)]

\* A render that makes a new subscribe also when the query function is not
\* the one of the previous render.
useQuery_render_KeyedByQuery(c, query, depedencies) ==
    /\ consumers[c].status = "mounted"
    /\ LET h == consumers[c]
           queryDef == surfaces[client].queries[query]
           same == /\ areHookInputsEqual(DepsList(depedencies), h.list)
                   /\ query = h.props.query
           rendered == [h EXCEPT !.query = queryDef, !.depedencies = depedencies,
                                 !.list = DepsList(depedencies),
                                 !.props = Props(query, depedencies),
                                 !.view = [loading |-> h.loading, data |-> h.queryData],
                                 !.needsRender = FALSE]
       IN  IF same
           THEN /\ consumers' = [consumers EXCEPT ![c] = rendered]
                /\ UNCHANGED subs
           ELSE /\ consumers' = [consumers EXCEPT ![c] =
                      [rendered EXCEPT !.sub = Len(subs) + 1]]
                /\ subs' = Append(Unsubscribe(subs, h.sub),
                                  Subscription(c, queryDef, depedencies))
    /\ UNCHANGED <<regs, surfaces, calls, mq, invoked, console>>

\* A later render of component c with useQuery(query, depedencies).  It
\* returns {loading, data: getSnapshot()}.  useCallback keeps the memoised
\* subscribe while the dependency list compares equal; a new subscribe makes
\* useSyncExternalStore unsubscribe the old subscription and subscribe anew.
useQuery_render(c, query, depedencies) ==
    /\ consumers[c].status = "mounted"
    /\ LET h == consumers[c]
           queryDef == surfaces[client].queries[query]
           memo == useCallback(h, queryDef, depedencies)
           rendered == [memo EXCEPT !.props = Props(query, depedencies),
                                    !.view = [loading |-> h.loading, data |-> h.queryData],
                                    !.needsRender = FALSE]
       IN  IF areHookInputsEqual(DepsList(depedencies), h.list)
           THEN /\ consumers' = [consumers EXCEPT ![c] = rendered]
                /\ UNCHANGED subs
           ELSE /\ consumers' = [consumers EXCEPT ![c] =
                      [rendered EXCEPT !.sub = Len(subs) + 1]]
                /\ subs' = Append(Unsubscribe(subs, h.sub),
                                  Subscription(c, queryDef, depedencies))
    /\ UNCHANGED <<regs, surfaces, calls, mq, invoked, console>>

\* Component c unmounts: useSyncExternalStore unsubscribes.
useQuery_unmount(c) ==
    /\ consumers[c].status = "mounted"
    /\ consumers' = [consumers EXCEPT ![c].status = "detached"]
    /\ subs' = Unsubscribe(subs, consumers[c].sub)
    /\ UNCHANGED <<regs, surfaces, calls, mq, invoked, console>>

\* The teardown of subscription s is invoked once more after it has torn
\* the subscription down.
unsubscribe_again(s) ==
    /\ ~subs[s].active
    /\ subs' = Unsubscribe(subs, s)
    /\ UNCHANGED <<regs, surfaces, calls, mq, invoked, consumers, console>>

\* The store evaluates the body of subscription s in a read transaction on
\* its current state: Promise.resolve(query(tx, depedencies)).
subscription_run(s) ==
    /\ subs[s].dirty /\ subs[s].inflight = "none"
    /\ LET out == queryFn(subs[s].query, surfaces[client].kv,
                          InputOf(subs[s].depedencies))
       IN  subs' = [subs EXCEPT ![s].dirty = FALSE,
                                ![s].inflight = IF out.ok THEN "data" ELSE "error",
                                ![s].value = out.value,
                                ![s].err = out.err,
                                ![s].reads = out.reads]
    /\ UNCHANGED <<regs, surfaces, calls, mq, invoked, consumers, console>>

\* onData that does not store what it is given.
onData_KeepingSnapshot(h, data) ==
    IF h.status = "mounted"
    THEN [h EXCEPT !.loading = FALSE,
                   !.needsRender = h.needsRender \/ h.loading \/ data # h.view.data]
    ELSE h

\* onData(data): queryData.current = data; setLoading(false); callback().
\* The state setter and the store callback of an unmounted component do nothing.
onData(h, data) ==
    IF h.status = "mounted"
    THEN [h EXCEPT !.queryData = data,
                   !.loading = FALSE,
                   !.needsRender = h.needsRender \/ h.loading \/ data # h.view.data]
    ELSE [h EXCEPT !.queryData = data]

\* onError that discards the snapshot it holds.
onError_ClearingData(h) ==
    IF h.status = "mounted"
    THEN [h EXCEPT !.queryData = NullValue, !.loading = FALSE,
                   !.needsRender = h.needsRender \/ h.loading]
    ELSE [h EXCEPT !.queryData = NullValue]

\* onError(error), after console.error(error): setLoading(false).
onError(h) ==
    IF h.status = "mounted"
    THEN [h EXCEPT !.loading = FALSE,
                   !.needsRender = h.needsRender \/ h.loading]
    ELSE h

\* A delivery that lands in a snapshot and a loading flag shared by every
\* component.
subscription_deliver_Shared(s) ==
    /\ subs[s].inflight # "none"
    /\ LET fresh == subs[s].got = <<>> \/ subs[s].value # subs[s].lastValue
       IN  IF subs[s].inflight = "data"
           THEN /\ subs' = [subs EXCEPT
                      ![s].inflight = "none",
                      ![s].lastValue = IF fresh THEN subs[s].value ELSE @,
                      ![s].got = IF fresh THEN Append(@, subs[s].value) ELSE @]
                /\ consumers' = IF fresh
                                THEN [c \in DOMAIN consumers |->
                                         onData(consumers[c], subs[s].value)]
                                ELSE consumers
                /\ UNCHANGED console
           ELSE /\ subs' = [subs EXCEPT ![s].inflight = "none", ![s].errored = TRUE]
                /\ console' = console \cup {subs[s].err}
                /\ consumers' = [c \in DOMAIN consumers |-> onError(consumers[c])]
    /\ UNCHANGED <<regs, surfaces, calls, mq, invoked>>

\* The store hands an evaluation's outcome to the callbacks of subscription
\* s: a value to onData if it is the first or differs from the last one, an
\* error to onError.  A subscription unsubscribed while its evaluation was
\* under way may still be handed the outcome (or not: subscription_drop).
subscription_deliver(s) ==
    /\ subs[s].inflight # "none"
    /\ LET c == subs[s].consumer
           fresh == subs[s].got = <<>> \/ subs[s].value # subs[s].lastValue
       IN  IF subs[s].inflight = "data"
           THEN /\ subs' = [subs EXCEPT
                      ![s].inflight = "none",
                      ![s].lastValue = IF fresh THEN subs[s].value ELSE @,
                      ![s].got = IF fresh THEN Append(@, subs[s].value) ELSE @]
                /\ consumers' = IF fresh
                                THEN [consumers EXCEPT ![c] = onData(@, subs[s].value)]
                                ELSE consumers
                /\ UNCHANGED console
           ELSE /\ subs' = [subs EXCEPT ![s].inflight = "none", ![s].errored = TRUE]
                /\ console' = console \cup {subs[s].err}
                /\ consumers' = [consumers EXCEPT ![c] = onError(@)]
    /\ UNCHANGED <<regs, surfaces, calls, mq, invoked>>

\* The store forgets what it still had to do for an unsubscribed subscription.
subscription_drop(s) ==
    /\ ~subs[s].active
    /\ subs[s].dirty \/ subs[s].inflight # "none"
    /\ subs' = [subs EXCEPT ![s].dirty = FALSE, ![s].inflight = "none"]
    /\ UNCHANGED <<regs, surfaces, calls, mq, invoked, consumers, console>>

\* A render of component c with dependency input d makes a new subscribe,
\* and with it a new store subscription.
Resubscribes(c, d) == ~areHookInputsEqual(DepsList(d), consumers[c].list)

\* What the component's event handlers pass to rep.mutate.
ReactInputs == { User(Num(1), "Jean") }

\* A component tree under the bindings, and the mutations its event handlers
\* dispatch through rep.mutate (the client's schemas validate synchronously).
ReactNext ==
    \/ \E inside \in BOOLEAN, q \in ReactQueryNames, d \in DepsInputs :
          /\ Len(consumers) < MaxConsumers /\ Len(subs) < MaxSubs
          /\ useQuery_mount(inside, q, d)
    \/ \E c \in 1..Len(consumers), d \in DepsInputs :
          /\ d # consumers[c].props.depedencies
          /\ Len(subs) < MaxSubs \/ ~Resubscribes(c, d)
          /\ useQuery_render(c, consumers[c].props.query, d)
    \/ \E c \in 1..Len(consumers) :
          /\ consumers[c].needsRender
          /\ useQuery_render(c, consumers[c].props.query,
                             consumers[c].props.depedencies)
    \/ \E c \in 1..Len(consumers) : useQuery_unmount(c)
    \/ \E s \in 1..Len(subs) : unsubscribe_again(s)
    \/ \E s \in 1..Len(subs) : subscription_run(s)
    \/ \E s \in 1..Len(subs) : subscription_deliver(s)
    \/ \E s \in 1..Len(subs) : subscription_drop(s)
    \/ \E n \in Names, i \in ReactInputs : mutate(client, n, i)
    \/ \E c \in 1..Len(calls) : mutate_resume(c)
    \/ \E c \in 1..Len(calls) : builtMutator(c)
    \/ \E c \in 1..Len(calls) : builtMutator_resume(c)

SpecReact == InitReact /\ [][ReactNext]_vars

\* The store runs every evaluation that is due for an open subscription and
\* hands every outcome to its callbacks.
SpecReactFair ==
    /\ SpecReact
    /\ WF_vars(\E s \in 1..Len(subs) : subs[s].active /\ subscription_run(s))
    /\ WF_vars(\E s \in 1..Len(subs) : subs[s].active /\ subscription_deliver(s))

\* Every shape of dependency input useQuery accepts: a primitive (1, 2 and
\* the falsy 0), an array, an object, or none.
HookDeps ==
    DepsInputs \cup
    { Deps("primitive", <<Num(1)>>), Deps("primitive", <<Num(2)>>),
      Deps("primitive", <<Num(0)>>),
      Deps("array", <<Num(1)>>), Deps("array", <<Num(2)>>),
      Deps("undefined", <<>>) }

\* A component that is rendered again and again with any query and any
\* dependency input, over a store nothing writes to.
HookNext ==
    \/ \E inside \in BOOLEAN, q \in ReactQueryNames, d \in HookDeps :
          /\ Len(consumers) < MaxConsumers /\ Len(subs) < MaxSubs
          /\ useQuery_mount(inside, q, d)
    \/ \E c \in 1..Len(consumers), q \in ReactQueryNames, d \in HookDeps :
          /\ Len(subs) < MaxSubs \/ ~Resubscribes(c, d)
          /\ useQuery_render(c, q, d)
    \/ \E c \in 1..Len(consumers) : useQuery_unmount(c)
    \/ \E s \in 1..Len(subs) : subscription_run(s)
    \/ \E s \in 1..Len(subs) : subscription_deliver(s)
    \/ \E s \in 1..Len(subs) : subscription_drop(s)

SpecHook == InitReact /\ [][HookNext]_vars

\* The queries and dependency inputs of the components of a tree with
\* several components.
PairDeps == { Deps("object", <<Num(1)>>), Deps("object", <<Num(2)>>) }

\* Several components under one provider, each with its own useQuery, and
\* the mutations their event handlers dispatch.
PairNext ==
    \/ \E q \in ReactQueryNames, d \in PairDeps :
          /\ Len(consumers) < PairConsumers /\ Len(subs) < PairSubs
          /\ useQuery_mount(TRUE, q, d)
    \/ \E c \in 1..Len(consumers), d \in PairDeps :
          /\ d # consumers[c].props.depedencies
          /\ Len(subs) < PairSubs \/ ~Resubscribes(c, d)
          /\ useQuery_render(c, consumers[c].props.query, d)
    \/ \E c \in 1..Len(consumers) :
          /\ consumers[c].needsRender
          /\ useQuery_render(c, consumers[c].props.query,
                             consumers[c].props.depedencies)
    \/ \E s \in 1..Len(subs) : subscription_run(s)
    \/ \E s \in 1..Len(subs) : subscription_deliver(s)
    \/ \E s \in 1..Len(subs) : subscription_drop(s)
    \/ \E i \in ReactInputs : mutate(client, "createUser", i)
    \/ \E c \in 1..Len(calls) : mutate_resume(c)
    \/ \E c \in 1..Len(calls) : builtMutator(c)
    \/ \E c \in 1..Len(calls) : builtMutator_resume(c)

SpecPair == InitReact /\ [][PairNext]_vars

(***************************************************************************)
(* Properties of dispatch                                                  *)
(***************************************************************************)
CallIds == 1..Len(calls)
DispatchCalls == { c \in CallIds : calls[c].kind \in {"server", "mutate"} }

\* The name was an own entry of the map the call was dispatched on.
Registered(c) == calls[c].def # NoDef

\* Positions in `invoked` of the handler invocations made for call c.
InvocationsOf(c) == { i \in 1..Len(invoked) : invoked[i].call = c }

InvalidInput(c) ==
    Registered(c) /\ StandardValidate(calls[c].def.schema, calls[c].args).hasIssues
ValidInput(c) ==
    Registered(c) /\ ~StandardValidate(calls[c].def.schema, calls[c].args).hasIssues

\* C1: a ReplicacheServer.mutate call for a name that is not registered
\* rejects with the message "Unknown mutation: <name>", runs no validator and
\* no handler; a call for a registered name never rejects with that error.
C1_UnknownMutation ==
    \A c \in CallIds :
        calls[c].kind = "server" =>
            /\ ~Registered(c) =>
                  /\ Settled(calls[c]) =>
                        /\ calls[c].pc = "rejected"
                        /\ calls[c].err.message = "Unknown mutation: " \o calls[c].name
                  /\ calls[c].nvalidate = 0
                  /\ InvocationsOf(c) = {}
            /\ Registered(c) => calls[c].err.type # "MutationNotFoundError"

\* C2: a dispatch (server.mutate or a built mutate.<name>) of a registered
\* mutation with an input that violates its schema can only reject, with a
\* ValidationError; its handler is never invoked and it opens no transaction.
C2_InvalidInputRejected ==
    \A c \in DispatchCalls :
        InvalidInput(c) =>
            /\ calls[c].pc \in {"validating", "queued", "rejected"}
            /\ calls[c].pc = "rejected" => calls[c].err.type = "ValidationError"
            /\ InvocationsOf(c) = {}
            /\ calls[c].ntx = 0

C2_Witness ==
    \E c1, c2 \in DispatchCalls :
        /\ calls[c1].kind = "server" /\ calls[c2].kind = "mutate"
        /\ InvalidInput(c1) /\ InvalidInput(c2)
        /\ calls[c1].pc = "rejected" /\ calls[c2].pc = "rejected"

\* C3: a dispatch of a registered mutation with an input that satisfies its
\* schema invokes the handler with exactly the value one validate(schema,
\* input) returns, on the producer side and on the built consumer side.
C3_HandlerGetsValidated ==
    \A c \in DispatchCalls :
        ValidInput(c) =>
            /\ \A i \in InvocationsOf(c) :
                  /\ invoked[i].fn = calls[c].def.fn
                  /\ invoked[i].arg = validate(calls[c].def.schema, calls[c].args).value
            /\ Settled(calls[c]) => InvocationsOf(c) # {}

\* C4: two mutate.<name> calls on one surface with different valid inputs,
\* the second possibly issued before the first settled: once both handlers
\* have run, each ran once with its own validated input, the earlier call's
\* first.
C4_CallOrder ==
    \A c1, c2 \in CallIds :
        ( /\ c1 < c2
          /\ calls[c1].kind = "mutate" /\ calls[c2].kind = "mutate"
          /\ calls[c1].target = calls[c2].target
          /\ calls[c1].name = calls[c2].name
          /\ calls[c1].args # calls[c2].args
          /\ ValidInput(c1) /\ ValidInput(c2)
          /\ InvocationsOf(c1) # {} /\ InvocationsOf(c2) # {} )
        => /\ Cardinality(InvocationsOf(c1)) = 1
           /\ Cardinality(InvocationsOf(c2)) = 1
           /\ \A i \in InvocationsOf(c1), j \in InvocationsOf(c2) :
                 /\ i < j
                 /\ invoked[i].arg = validate(calls[c1].def.schema, calls[c1].args).value
                 /\ invoked[j].arg = validate(calls[c2].def.schema, calls[c2].args).value

\* The definition the latest registration of `name` in a chain gave.
RECURSIVE LastRegistered(_, _, _)
LastRegistered(chain, op, name) ==
    IF chain = <<>> THEN NoDef
    ELSE LET last == chain[Len(chain)]
         IN  IF last.op = op /\ last.def.name = name
             THEN last.def
             ELSE LastRegistered(SubSeq(chain, 1, Len(chain) - 1), op, name)

RegistrationsOf(chain, op, name) ==
    { i \in 1..Len(chain) : chain[i].op = op /\ chain[i].def.name = name }

\* C5: a dispatch of a registered mutation name uses the latest registration
\* of that name in the builder chain: it validates against that schema and
\* invokes that handler, and never an earlier registration's.
C5_LastRegistrationWins ==
    \A c \in DispatchCalls :
        Registered(c) =>
            LET last == LastRegistered(calls[c].chain, "mutation", calls[c].name)
            IN  /\ calls[c].def = last
                /\ \A i \in InvocationsOf(c) : invoked[i].fn = last.fn
                /\ calls[c].pc \in {"validating", "queued"} =>
                      calls[c].pending =
                          validate(last.schema,
                                   IF calls[c].stage = "tx"
                                   THEN calls[c].txarg ELSE calls[c].args)

\* A name registered twice with different schemas and handlers, built and
\* dispatched to its handler.
C5_Witness ==
    \E c \in DispatchCalls :
        /\ calls[c].kind = "mutate"
        /\ \E i, j \in RegistrationsOf(calls[c].chain, "mutation", calls[c].name) :
              /\ i < j
              /\ calls[c].chain[i].def.schema # calls[c].chain[j].def.schema
              /\ calls[c].chain[i].def.fn # calls[c].chain[j].def.fn
        /\ calls[c].pc = "resolved"
        /\ InvocationsOf(c) # {}

\* The same on the producer side.
C5_WitnessServer ==
    \E c \in DispatchCalls :
        /\ calls[c].kind = "server"
        /\ \E i, j \in RegistrationsOf(calls[c].chain, "mutation", calls[c].name) :
              /\ i < j
              /\ calls[c].chain[i].def.schema # calls[c].chain[j].def.schema
              /\ calls[c].chain[i].def.fn # calls[c].chain[j].def.fn
        /\ calls[c].pc = "resolved"
        /\ InvocationsOf(c) # {}

\* C6: no step changes or removes a registry value that exists, nor the
\* definitions a built surface holds: a retained earlier builder stage and a
\* surface built from it are as they were after any later builder call.
C6_RegistriesImmutable ==
    [][ /\ \A r \in regs : r \in regs'
        /\ \A s \in 1..Len(surfaces) :
              /\ s <= Len(surfaces')
              /\ surfaces'[s].mutators = surfaces[s].mutators
              /\ surfaces'[s].queries = surfaces[s].queries ]_vars

IsPrefix(p, q) == Len(p) <= Len(q) /\ SubSeq(q, 1, Len(p)) = p

\* A surface built from a stage that a later stage was chained from, still
\* dispatching.
C6_Witness ==
    \E s \in 1..Len(surfaces), r \in regs, r2 \in regs, c \in CallIds :
        /\ r.chain = surfaces[s].chain /\ r.kind = "client" /\ r.chain # <<>>
        /\ r2.kind = "client"
        /\ IsPrefix(r.chain, r2.chain) /\ Len(r2.chain) > Len(r.chain)
        /\ \E n \in DOMAIN r.mutators : r2.mutators[n] # r.mutators[n]
        /\ calls[c].kind = "mutate" /\ calls[c].target = s
        /\ calls[c].pc = "resolved"

\* What the handlers run before position `upto` of `invoked` left under key k
\* of surface s's store: the value of the latest write, null after a delete
\* or when nothing was written.
RECURSIVE LatestWritten(_, _, _)
LatestWritten(s, k, upto) ==
    IF upto = 0 THEN NullValue
    ELSE LET e == invoked[upto]
         IN  IF /\ calls[e.call].kind \in StoreMutations /\ calls[e.call].target = s
                /\ KeyOf(e.arg) = k /\ ~e.threw
             THEN IF e.fn = "removeUser" THEN NullValue ELSE e.arg
             ELSE LatestWritten(s, k, upto - 1)

C7_WitnessNull ==
    \E c \in CallIds :
        /\ calls[c].kind = "once" /\ calls[c].def.fn = "getUser"
        /\ calls[c].pc = "resolved" /\ calls[c].result = NullValue

(***************************************************************************)
(* Properties of useQuery                                                  *)
(***************************************************************************)
ConsumerIds == 1..MaxConsumers
SubIds == 1..MaxSubs

\* Values a query can return.
Results == { NullValue, User(Num(1), "Jean") }

\* Subscription s is the open subscription of mounted component c.
Live(c, s) ==
    /\ c <= Len(consumers) /\ s <= Len(subs)
    /\ consumers[c].status = "mounted" /\ consumers[c].sub = s
    /\ subs[s].active

\* What the query of subscription s evaluates to on the store's current state.
ResultNow(s) ==
    queryFn(subs[s].query, surfaces[client].kv, InputOf(subs[s].depedencies))

\* The store's state gives the query of c's live subscription s, which has
\* delivered before, the result v, which is not the value it delivered last.
Updated(c, s, v) ==
    /\ Live(c, s)
    /\ subs[s].got # <<>>
    /\ ResultNow(s).ok /\ ResultNow(s).value = v
    /\ v # subs[s].lastValue

\* Subscription s has handed v to c: the snapshot is v and c is due to render
\* (or has rendered) it.
Delivered(c, s, v) ==
    /\ subs[s].lastValue = v
    /\ consumers[c].queryData = v
    /\ consumers[c].needsRender \/ consumers[c].view.data = v

\* C8: once a committed mutation has changed the result of a live
\* subscription's query to v, that same subscription eventually hands v to
\* its component (snapshot replaced, component notified), unless the result
\* changes again or the component unsubscribes first.
C8_UpdateDelivered ==
    \A c \in ConsumerIds, s \in SubIds, v \in Results :
        Updated(c, s, v)
            ~> \/ ~Live(c, s)
               \/ Delivered(c, s, v)
               \/ ~(ResultNow(s).ok /\ ResultNow(s).value = v)

\* One subscription has delivered twice, the second time the user a mutation
\* wrote after the first delivery, and the component has rendered it.
C8_Witness ==
    \E c \in 1..Len(consumers) :
        LET s == consumers[c].sub
        IN  /\ Live(c, s)
            /\ Len(subs[s].got) >= 2
            /\ subs[s].got[Len(subs[s].got)] = surfaces[client].kv[1]
            /\ surfaces[client].kv[1] # NullValue
            /\ consumers[c].view = [loading |-> FALSE, data |-> surfaces[client].kv[1]]

\* Component c is mounted and its subscription, opened after c had received
\* data, has not yet been handed any outcome.
Resubscribing(c) ==
    /\ consumers[c].status = "mounted"
    /\ LET s == subs[consumers[c].sub]
       IN  s.afterData /\ s.got = <<>> /\ ~s.errored

\* C9 as stated: after a dependency change that follows a delivery, loading
\* is true until the first successful evaluation under the new dependencies.
C9_LoadingResets ==
    \A c \in 1..Len(consumers) :
        Resubscribing(c) => consumers[c].loading

\* C9: after a dependency change that follows a delivery, loading stays
\* false; the hook never sets it back to true.
C9_LoadingStaysFalse ==
    \A c \in 1..Len(consumers) :
        Resubscribing(c) => ~consumers[c].loading

C9_Witness ==
    \E c \in 1..Len(consumers) :
        /\ Resubscribing(c)
        /\ consumers[c].view = [loading |-> FALSE, data |-> User(Num(1), "Jean")]
        /\ consumers[c].props.depedencies = Deps("object", <<Num(2)>>)

\* C10: when the store hands a failed evaluation to a live query's callbacks,
\* the error is logged, loading is false afterwards, the snapshot is left as
\* it was, and the component stays mounted with its subscription.
C10_FailSoft ==
    [][\A s \in 1..Len(subs) :
          (subs[s].inflight = "error" /\ subscription_deliver(s)) =>
              LET c == subs[s].consumer
              IN  /\ subs[s].err \in console'
                  /\ consumers[c].status = "mounted" => ~consumers'[c].loading
                  /\ consumers'[c].queryData = consumers[c].queryData
                  /\ consumers'[c].status = consumers[c].status
                  /\ consumers'[c].sub = consumers[c].sub
                  /\ subs'[s].active = subs[s].active]_vars

\* Both kinds of failure, a throwing handler and a rejected dependency
\* input, have been handed to a mounted component, the later one while it
\* held a good snapshot.
C10_Witness ==
    /\ \E c \in 1..Len(consumers) :
          /\ consumers[c].status = "mounted"
          /\ subs[consumers[c].sub].errored
          /\ consumers[c].queryData = User(Num(1), "Jean")
          /\ consumers[c].view = [loading |-> FALSE, data |-> User(Num(1), "Jean")]
    /\ HandlerError("requireUser") \in console
    /\ \E e \in console : e.type = "ValidationError"

C13_HandlerErrorPropagates ==
    \A i \in 1..Len(invoked) :
        invoked[i].threw =>
            LET c == calls[invoked[i].call]
            IN  /\ c.pc = "rejected"
                /\ c.err = HandlerError(invoked[i].fn)

\* A throwing handler has rejected a built mutate call and a once call.
C13_Witness ==
    \E i, j \in 1..Len(invoked) :
        /\ invoked[i].threw /\ invoked[j].threw
        /\ calls[invoked[i].call].kind = "mutate"
        /\ calls[invoked[j].call].kind = "once"
        /\ calls[invoked[i].call].pc = "rejected"
        /\ calls[invoked[j].call].pc = "rejected"

\* The same on the producer side.
C13_WitnessServer ==
    \E i \in 1..Len(invoked) :
        /\ invoked[i].threw
        /\ calls[invoked[i].call].kind = "server"
        /\ calls[invoked[i].call].err = HandlerError("h3")

QueryCalls == { c \in CallIds : calls[c].kind \in {"once", "scoped"} }

\* C14: a query called with an input its schema rejects, through once(input)
\* or through query.<name>(tx, input), can only reject, with a
\* ValidationError, and its handler is never invoked.
C14_InvalidQueryRejected ==
    \A c \in QueryCalls :
        InvalidInput(c) =>
            /\ calls[c].pc \in {"txwait", "validating", "queued", "rejected"}
            /\ calls[c].pc = "rejected" => calls[c].err.type = "ValidationError"
            /\ InvocationsOf(c) = {}

\* Both forms have rejected an invalid input.
C14_Witness ==
    \E c1, c2 \in QueryCalls :
        /\ calls[c1].kind = "once" /\ calls[c2].kind = "scoped"
        /\ InvalidInput(c1) /\ InvalidInput(c2)
        /\ calls[c1].pc = "rejected" /\ calls[c2].pc = "rejected"

OnceCalls == { c \in CallIds : calls[c].kind = "once" }

\* C15: a once(input) call opens at most one read transaction, its handler
\* is invoked at most once and only while that transaction is open, and the
\* transaction is no longer open once the call has settled.
C15_OnceSingleTransaction ==
    /\ [](\A c \in OnceCalls :
            /\ calls[c].ntx <= 1
            /\ Cardinality(InvocationsOf(c)) <= 1
            /\ Settled(calls[c]) => calls[c].stage = "closed")
    /\ [][\A c \in OnceCalls :
            Cardinality(InvocationsOf(c)') > Cardinality(InvocationsOf(c)) =>
                calls[c].ntx = 1 /\ calls[c].stage = "tx"]_vars

\* Two once calls have settled, one resolved by its handler and one rejected,
\* each after one transaction.
C15_Witness ==
    \E c1, c2 \in OnceCalls :
        /\ calls[c1].pc = "resolved" /\ Cardinality(InvocationsOf(c1)) = 1
        /\ calls[c2].pc = "rejected"
        /\ calls[c1].ntx = 1 /\ calls[c2].ntx = 1

MutateCalls == { c \in CallIds : calls[c].kind = "mutate" }

\* The store has been asked for, or has opened, a write transaction for call c.
WriteTxStarted(c) ==
    \/ calls[c].ntx > 0
    \/ calls[c].pc = "txwait"
    \/ calls[c].stage = "tx"
    \/ \E s \in 1..Len(surfaces) :
          \/ surfaces[s].wtx = c
          \/ \E i \in 1..Len(surfaces[s].wq) : surfaces[s].wq[i] = c

\* C16: a mutate.<name>(input) call on a built surface whose input fails the
\* schema never starts a write transaction of the store.
C16_InvalidMutateStartsNoTransaction ==
    \A c \in MutateCalls : InvalidInput(c) => ~WriteTxStarted(c)

\* An invalid mutate call has been rejected while a valid one on the same
\* surface has gone through its write transaction.
C16_Witness ==
    \E c1, c2 \in MutateCalls :
        /\ InvalidInput(c1) /\ calls[c1].pc = "rejected"
        /\ calls[c1].err.type = "ValidationError"
        /\ ValidInput(c2) /\ calls[c2].ntx = 1 /\ Settled(calls[c2])

\* C17: a component outside the ReplicacheProvider subtree that calls
\* useReplicache (here through useQuery) is thrown at, and a component
\* inside the subtree gets the surface.
C17_UseReplicacheOutsideThrows ==
    \A c \in 1..Len(consumers) :
        IF consumers[c].inside
        THEN consumers[c].status # "threw" /\ useReplicache(TRUE).rep = client
        ELSE consumers[c].status = "threw"

\* What a registration's argument list says, whichever form it has: the
\* name, the schema S (the argument, or the handler's schema property) and
\* the handler.
Meaning(args) ==
    IF Len(args) = 3
    THEN <<args[1], args[2], args[3].id>>
    ELSE <<args[1], args[2].schema, args[2].id>>

\* Two chains make the same registrations, each in either form.
SameUpToForm(ch1, ch2) ==
    /\ Len(ch1) = Len(ch2)
    /\ \A i \in 1..Len(ch1) :
          ch1[i].op = ch2[i].op /\ Meaning(ch1[i].args) = Meaning(ch2[i].args)

\* C18: mutation(name, handler) with handler.schema = S registers what
\* mutation(name, S, handler) registers: registries whose chains differ
\* only in the form of their registrations hold the same definitions, and
\* dispatches of the same name and input on them validate against the same
\* schema with the same outcome and invoke the same handler with the same
\* value.
C18_FormsEquivalent ==
    /\ \A r1, r2 \in regs :
          r1.kind = r2.kind /\ SameUpToForm(r1.chain, r2.chain) =>
              r1.mutators = r2.mutators /\ r1.queries = r2.queries
    /\ \A c1, c2 \in DispatchCalls :
          /\ calls[c1].kind = calls[c2].kind
          /\ calls[c1].name = calls[c2].name /\ calls[c1].args = calls[c2].args
          /\ SameUpToForm(calls[c1].chain, calls[c2].chain)
          => /\ calls[c1].def = calls[c2].def
             /\ calls[c1].nvalidate > 0 /\ calls[c2].nvalidate > 0 =>
                   StandardValidate(calls[c1].def.schema, calls[c1].args)
                     = StandardValidate(calls[c2].def.schema, calls[c2].args)
             /\ Settled(calls[c1]) /\ Settled(calls[c2]) =>
                   /\ calls[c1].pc = calls[c2].pc
                   /\ calls[c1].err = calls[c2].err
                   /\ { <<invoked[i].fn, invoked[i].arg>> : i \in InvocationsOf(c1) }
                        = { <<invoked[i].fn, invoked[i].arg>> : i \in InvocationsOf(c2) }

\* The same registration has been made in both forms, and the same input
\* has been dispatched on, and handled by, each of the two registries.
C18_Witness ==
    \E c1, c2 \in DispatchCalls :
        /\ Len(calls[c1].chain) = 1 /\ Len(calls[c2].chain) = 1
        /\ Len(calls[c1].chain[1].args) = 2 /\ Len(calls[c2].chain[1].args) = 3
        /\ SameUpToForm(calls[c1].chain, calls[c2].chain)
        /\ calls[c1].name = calls[c2].name /\ calls[c1].args = calls[c2].args
        /\ calls[c1].pc = "resolved" /\ calls[c2].pc = "resolved"
        /\ InvocationsOf(c1) # {} /\ InvocationsOf(c2) # {}

\* Both forms have registered the same consumer-side definition.
C18_WitnessClient ==
    \E r1, r2 \in regs :
        /\ r1.kind = "client" /\ r2.kind = "client"
        /\ r1.chain # r2.chain /\ r1.chain # <<>>
        /\ SameUpToForm(r1.chain, r2.chain)
        /\ r1.mutators = r2.mutators

\* Calls dispatched on a definition whose validator returns a promise.
AsyncValidated == { c \in CallIds : SchemaIsAsync(calls[c].def.schema) }

\* The schema that differs from an asynchronous one only in returning its
\* result directly.
SyncTwin(schema) == IF schema = "asyncNumber" THEN "number" ELSE schema

SubsOf(c) == { s \in 1..Len(subs) : subs[s].consumer = c }

\* No subscription of c has handed a value to onData yet.
NoDeliveryYet(c) == \A s \in SubsOf(c) : subs[s].got = <<>>

\* No subscription of c has handed anything to onData or onError yet.
NoOutcomeYet(c) == \A s \in SubsOf(c) : subs[s].got = <<>> /\ ~subs[s].errored

\* The store hands a value to onData of subscription s, whose component is
\* mounted.
HandsValue(s) ==
    /\ subs[s].inflight = "data"
    /\ subs[s].got = <<>> \/ subs[s].value # subs[s].lastValue
    /\ consumers[subs[s].consumer].status = "mounted"
    /\ subscription_deliver(s)

\* After HandsValue(s): loading is false, the snapshot is the value, and the
\* component is due to render it unless it already shows it.
Ready(s) ==
    LET c == subs[s].consumer
    IN  /\ ~consumers'[c].loading
        /\ consumers'[c].queryData = subs[s].value
        /\ consumers'[c].needsRender \/ consumers'[c].view.data = subs[s].value

\* C20 as stated: until the first delivery loading is true and there is no
\* snapshot, and each delivery sets loading to false, replaces the snapshot
\* and notifies the component.
C20_LoadingUntilFirstDelivery ==
    /\ [](\A c \in 1..Len(consumers) :
            NoDeliveryYet(c) =>
                consumers[c].loading /\ consumers[c].queryData = NullValue)
    /\ [][\A s \in 1..Len(subs) : HandsValue(s) => Ready(s)]_vars

\* C20: until the first outcome, a value or an error, is handed to a
\* component's callbacks, loading is true, in the hook's state and in what
\* the component rendered; until the first value is handed to onData there
\* is no snapshot; and each value handed to onData of a mounted component
\* sets loading to false, replaces the snapshot and notifies the component.
C20_LoadingUntilFirstOutcome ==
    /\ [](\A c \in 1..Len(consumers) :
            /\ NoOutcomeYet(c) =>
                  /\ consumers[c].loading
                  /\ consumers[c].view = [loading |-> TRUE, data |-> NullValue]
            /\ NoDeliveryYet(c) => consumers[c].queryData = NullValue)
    /\ [][\A s \in 1..Len(subs) : HandsValue(s) => Ready(s)]_vars

\* A component that was loading has been handed a user as its first value
\* and has rendered it; before that an evaluation of its query had failed.
C20_Witness ==
    \E c \in 1..Len(consumers) :
        /\ consumers[c].status = "mounted"
        /\ \E s \in SubsOf(c) : subs[s].errored
        /\ \E s \in SubsOf(c) : subs[s].got = <<User(Num(1), "Jean")>>
        /\ consumers[c].view = [loading |-> FALSE, data |-> User(Num(1), "Jean")]

\* The constituent values of a dependency input: the elements of an array,
\* the property values of an object, the primitive itself, nothing if absent.
ValuesOf(depedencies) == depedencies.vals

\* C21: a render of useQuery replaces the store subscription by a new one
\* opened with the fresh dependency input exactly when some constituent
\* value of the input differs from the previous render's, whatever the
\* shape of the input.
C21_ResubscribesExactlyOnChange ==
    [][\A c \in 1..Len(consumers), q \in ReactQueryNames, d \in HookDeps :
          useQuery_render(c, q, d) /\ Len(subs) < MaxSubs =>
              IF ValuesOf(d) # ValuesOf(consumers[c].props.depedencies)
              THEN /\ consumers'[c].sub # consumers[c].sub
                   /\ ~subs'[consumers[c].sub].active
                   /\ subs'[consumers'[c].sub].active
                   /\ subs'[consumers'[c].sub].depedencies = d
              ELSE /\ consumers'[c].sub = consumers[c].sub
                   /\ subs' = subs]_vars

\* C22: once(input) validates first, then opens the read transaction, then
\* invokes the handler inside it: when the store opens the transaction the
\* validator has already accepted the input, and the handler is invoked
\* only while the transaction is open.
C22_OnceValidatesFirst ==
    [][\A c \in OnceCalls :
          /\ calls'[c].ntx > calls[c].ntx =>
                calls[c].nvalidate > 0 /\ calls[c].pending.ok
          /\ Cardinality(InvocationsOf(c)') > Cardinality(InvocationsOf(c)) =>
                calls[c].stage = "tx"]_vars

DirectCalls == { c \in CallIds : calls[c].kind = "direct" }

\* C23: the mutator build() registers with the store validates its input
\* inside the transaction and invokes the handler only with a value its
\* validation has passed: a mutator run through rep.mutate.<name> with an
\* invalid input can only reject, with a ValidationError, its handler is
\* never invoked and its transaction writes nothing.
C23_BuiltMutatorValidates ==
    /\ [](\A c \in DirectCalls :
            /\ \A i \in InvocationsOf(c) :
                  /\ calls[c].nvalidate = 1 /\ calls[c].ntx = 1
                  /\ validate(calls[c].def.schema, calls[c].args).ok
                  /\ invoked[i].arg =
                        validate(calls[c].def.schema, calls[c].args).value
            /\ InvalidInput(c) =>
                  /\ InvocationsOf(c) = {}
                  /\ calls[c].pc # "resolved"
                  /\ calls[c].pc = "rejected" =>
                        /\ calls[c].err.type = "ValidationError"
                        /\ calls[c].ntx = 1)
    /\ [][\A c \in DirectCalls :
            InvalidInput(c) /\ builtMutator_resume(c) =>
                surfaces'[calls[c].target].kv = surfaces[calls[c].target].kv]_vars

\* The store has run a mutator for an invalid input, which was rejected
\* inside its transaction, and for a valid one, which wrote.
C23_Witness ==
    \E c1, c2 \in DirectCalls :
        /\ InvalidInput(c1) /\ calls[c1].pc = "rejected" /\ calls[c1].ntx = 1
        /\ calls[c1].err.type = "ValidationError"
        /\ ValidInput(c2) /\ calls[c2].pc = "resolved" /\ InvocationsOf(c2) # {}
        /\ surfaces[calls[c2].target].kv # EmptyStore

ServerCalls == { c \in CallIds : calls[c].kind = "server" }

\* Calls c1 and c2 were in flight together: the later was issued before the
\* earlier had settled.
Concurrent(c1, c2) == c1 < c2 /\ c1 \notin calls[c2].after

\* C24: however ReplicacheServer.mutate calls interleave, each call invokes
\* at most once the handler registered under its own name, with the value
\* its own validation produced, or rejects without invoking a handler; a
\* call that resolved has invoked its handler.
C24_ConcurrentCallsIsolated ==
    \A c \in ServerCalls :
        /\ Cardinality(InvocationsOf(c)) <= 1
        /\ \A i \in InvocationsOf(c) :
              /\ Registered(c)
              /\ invoked[i].fn =
                    LastRegistered(calls[c].chain, "mutation", calls[c].name).fn
              /\ validate(calls[c].def.schema, calls[c].args).ok
              /\ invoked[i].arg = validate(calls[c].def.schema, calls[c].args).value
        /\ calls[c].pc = "resolved" => InvocationsOf(c) # {}
        /\ InvocationsOf(c) = {} /\ Settled(calls[c]) => calls[c].pc = "rejected"

\* Two calls on one registry with different inputs were in flight together,
\* the second validated while the first was suspended, and both handlers
\* have run.
C24_Witness ==
    \E c1, c2 \in ServerCalls :
        /\ Concurrent(c1, c2)
        /\ calls[c1].chain = calls[c2].chain
        /\ calls[c1].args # calls[c2].args
        /\ validate(calls[c1].def.schema, calls[c1].args).value
             # validate(calls[c2].def.schema, calls[c2].args).value
        /\ calls[c1].pc = "resolved" /\ calls[c2].pc = "resolved"
        /\ InvocationsOf(c1) # {} /\ InvocationsOf(c2) # {}

\* The step is one of another component than c: the store hands an outcome
\* to a subscription of another component, or another component renders
\* (with changed dependencies or not).
StepOfOther(c) ==
    \/ \E s \in 1..Len(subs) : subs[s].consumer # c /\ subscription_deliver(s)
    \/ \E c2 \in 1..Len(consumers), d \in PairDeps :
          c2 # c /\ useQuery_render(c2, consumers[c2].props.query, d)

\* C25: a delivery, an error or a dependency change of one useQuery
\* consumer leaves every other consumer's snapshot and loading flag, and
\* what that consumer last rendered, as they were.
C25_ConsumersIndependent ==
    [][\A c \in 1..Len(consumers) :
          StepOfOther(c) =>
              /\ consumers'[c].queryData = consumers[c].queryData
              /\ consumers'[c].loading = consumers[c].loading
              /\ consumers'[c].view = consumers[c].view
              /\ consumers'[c].sub = consumers[c].sub]_vars

\* Two mounted components differ in snapshot and in loading flag: one has
\* been handed a user and has changed its dependencies since, the other has
\* been handed nothing yet.
C25_Witness ==
    \E c1, c2 \in 1..Len(consumers) :
        /\ consumers[c1].queryData = User(Num(1), "Jean") /\ ~consumers[c1].loading
        /\ Cardinality(SubsOf(c1)) = 2
        /\ consumers[c2].queryData = NullValue /\ consumers[c2].loading
        /\ \E s \in SubsOf(c2) : subs[s].dirty \/ subs[s].inflight # "none"

\* The subscriptions of component c the store still holds.
ActiveSubsOf(c) == { s \in SubsOf(c) : subs[s].active }

\* A mounted component holds at most one open subscription, the one of its
\* latest subscribe.
OneActiveSubscription ==
    \A c \in 1..Len(consumers) :
        consumers[c].status = "mounted" => ActiveSubsOf(c) \subseteq {consumers[c].sub}

C27_ValidatedTwice ==
    /\ [](\A c \in MutateCalls :
            LET first == validate(calls[c].def.schema, calls[c].args)
                second == validate(calls[c].def.schema, first.value)
            IN  /\ \A i \in InvocationsOf(c) :
                      /\ calls[c].nvalidate = 2
                      /\ first.ok /\ second.ok
                      /\ calls[c].txarg = first.value
                      /\ invoked[i].arg = second.value
                /\ calls[c].pc = "resolved" =>
                      Cardinality(InvocationsOf(c)) = 1)
    /\ [][\A c \in MutateCalls :
            /\ calls[c].nvalidate = 1 =>
                  \/ calls'[c].nvalidate = 1 /\ calls'[c].ntx = calls[c].ntx
                  \/ /\ calls'[c].nvalidate = 2
                     /\ calls[c].ntx = 0 /\ calls'[c].ntx = 1
                     /\ calls[c].pending.ok
            /\ calls[c].nvalidate = 2 => calls'[c].nvalidate = 2]_vars

\* A call has succeeded after two validations, the second one made by the
\* store's transaction, and its handler has written.
C27_Witness ==
    \E c \in MutateCalls :
        /\ calls[c].pc = "resolved" /\ calls[c].nvalidate = 2 /\ calls[c].ntx = 1
        /\ Cardinality(InvocationsOf(c)) = 1
        /\ surfaces[calls[c].target].kv # EmptyStore

\* The subscriptions component c had before its current one.
EarlierSubsOf(c) == SubsOf(c) \ {consumers[c].sub}

\* The snapshots c can hold from its earlier subscriptions: the last value
\* one of them delivered, or none if none delivered.
EarlierSnapshots(c) ==
    IF \A p \in EarlierSubsOf(c) : subs[p].got = <<>>
    THEN {NullValue}
    ELSE { subs[p].lastValue : p \in { q \in EarlierSubsOf(c) : subs[q].got # <<>> } }

\* C28: a dependency change does not clear the snapshot: the render that
\* changes the dependencies returns the snapshot as it was, and until the
\* new subscription delivers, the snapshot is the last one delivered under
\* the earlier dependencies and is what the component shows or is due to
\* show.
C28_SnapshotSurvivesChange ==
    /\ [](\A c \in 1..Len(consumers) :
            ( /\ consumers[c].status = "mounted"
              /\ EarlierSubsOf(c) # {}
              /\ subs[consumers[c].sub].got = <<>> )
            => /\ consumers[c].queryData \in EarlierSnapshots(c)
               /\ consumers[c].needsRender
                    \/ consumers[c].view.data = consumers[c].queryData)
    /\ [][\A c \in 1..Len(consumers), d \in DepsInputs :
            useQuery_render(c, consumers[c].props.query, d) =>
                /\ consumers'[c].queryData = consumers[c].queryData
                /\ consumers'[c].view.data = consumers[c].queryData]_vars

\* A component that showed a user has changed its dependencies; the new
\* subscription has evaluated its query but not delivered, and the
\* component still shows the user.
C28_Witness ==
    \E c \in 1..Len(consumers) :
        /\ consumers[c].status = "mounted"
        /\ EarlierSubsOf(c) # {}
        /\ subs[consumers[c].sub].got = <<>>
        /\ subs[consumers[c].sub].inflight = "data"
        /\ consumers[c].queryData = User(Num(1), "Jean")
        /\ consumers[c].view.data = User(Num(1), "Jean")
        /\ ~consumers[c].needsRender

\* C29: the store subscription is keyed by the dependency values only: a
\* render with another query function and the dependency values of the
\* previous render opens no subscription and closes none, and a
\* subscription evaluates the query function it was opened with for as
\* long as it exists.
C29_KeyedByDependenciesOnly ==
    [][/\ \A c \in 1..Len(consumers), q \in ReactQueryNames, d \in HookDeps :
             ( /\ q # consumers[c].props.query
               /\ ValuesOf(d) = ValuesOf(consumers[c].props.depedencies)
               /\ useQuery_render(c, q, d) )
             => /\ subs' = subs
                /\ consumers'[c].sub = consumers[c].sub
                /\ consumers'[c].props.query = q
       /\ \A s \in 1..Len(subs) : subs'[s].query = subs[s].query]_vars

\* A component now rendered with one query still holds the subscription it
\* opened with the other, which has evaluated that other query since.
C29_Witness ==
    \E c \in 1..Len(consumers) :
        LET s == consumers[c].sub
        IN  /\ consumers[c].status = "mounted"
            /\ Len(subs) = 1 /\ subs[s].active
            /\ subs[s].query # surfaces[client].queries[consumers[c].props.query]
            /\ subs[s].query.fn = "getUser"
            /\ subs[s].got = <<NullValue>>
            /\ consumers[c].view = [loading |-> FALSE, data |-> NullValue]

\* The map the registrations of kind op in a chain build up: for each name
\* registered, its latest definition.
MapOf(chain, op) ==
    [n \in { chain[i].def.name : i \in { j \in 1..Len(chain) : chain[j].op = op } }
        |-> LastRegistered(chain, op, n)]

\* C30: mutations and queries are separate namespaces: the mutation map of
\* a consumer registry is made by its mutation() calls alone and its query
\* map by its query() calls alone, whatever names they share; build()
\* carries both over, and on the surface mutate.<name> dispatches the
\* mutation and query.<name> the query of that name.
C30_SeparateNamespaces ==
    /\ \A r \in regs :
          r.kind = "client" =>
              /\ r.mutators = MapOf(r.chain, "mutation")
              /\ r.queries = MapOf(r.chain, "query")
    /\ \A s \in 1..Len(surfaces) :
          /\ surfaces[s].mutators = MapOf(surfaces[s].chain, "mutation")
          /\ surfaces[s].queries = MapOf(surfaces[s].chain, "query")
    /\ \A c \in CallIds :
          /\ calls[c].kind \in StoreMutations =>
                calls[c].def = LastRegistered(calls[c].chain, "mutation", calls[c].name)
          /\ calls[c].kind \in {"once", "scoped"} =>
                calls[c].def = LastRegistered(calls[c].chain, "query", calls[c].name)

\* One name is registered as a mutation and as a query, and on the built
\* surface both have been dispatched and have run their own handlers.
C30_Witness ==
    \E c1 \in MutateCalls, c2 \in QueryCalls :
        /\ calls[c1].name = calls[c2].name
        /\ calls[c1].target = calls[c2].target
        /\ calls[c1].pc = "resolved" /\ calls[c2].pc = "resolved"
        /\ \E i \in InvocationsOf(c1) : invoked[i].fn = "createUser"
        /\ \E i \in InvocationsOf(c2) : invoked[i].fn = "requireUser"

====
